---- MODULE Spec2Model ----
(***************************************************************************)
(* Saldo de empenhos: the paginated fetches, the ledger sequence scan, the *)
(* attribution call and the batch balance driver, as state machines.       *)
(*                                                                         *)
(* Python values are modelled as follows.                                  *)
(*   list            a sequence                                            *)
(*   None / list     a record [tipo |-> "None" | "lista", valor |-> seq]   *)
(*   Optional batch  <<>> for None, <<lote>> for a batch                   *)
(*   str             a sequence of one-character strings                   *)
(* A remote request is a nondeterministic choice among the responses the   *)
(* server and the network can produce.                                     *)
(***************************************************************************)
EXTENDS Integers, Sequences, FiniteSets, TLC

\* ------------------------------------------------------------------ bounds

\* Pages a single fetch may request before the model stops following it.
MaxPaginas == 4
\* Distinct full pages the server holds.
NumLotes == 2
\* Size of the server's last, partly filled page.
TamCurto == 37
\* Pages the fetch of one commitment may request inside calcular_saldos.
MaxPaginasPorEmpenho == 2
\* Rows of the spreadsheet calcular_saldos reads.
MaxEmpenhos == 2

\* ------------------------------------------------------- program constants

\* The page-size ceiling the loops compare a batch against.
TamanhoPagina == 500

\* ----------------------------------------------------------------- server

\* A response: a transport failure (HTTP status or network), or a decoded
\* body: batch `id` holding its first `n` records.
RespostasErro ==
    { [tipo |-> t, id |-> 0, n |-> 0] : t \in {"http", "rede"} }

RespostaVazia == [tipo |-> "ok", id |-> 0, n |-> 0]

RespostasCheias ==
    { [tipo |-> "ok", id |-> i, n |-> TamanhoPagina] : i \in 1..NumLotes }

RespostasCurtas ==
    { [tipo |-> "ok", id |-> i, n |-> TamCurto] : i \in 1..NumLotes }

Respostas ==
    RespostasErro \cup {RespostaVazia} \cup RespostasCheias \cup RespostasCurtas

EhErro(r) == r.tipo # "ok"

\* response.json(): record j of batch id is the document numbered
\* (id-1)*TamanhoPagina + j.
Dados(r) == [j \in 1..r.n |-> (r.id - 1) * TamanhoPagina + j]

\* ------------------------------------------------------------ python values

Lista(s) == [tipo |-> "lista", valor |-> s]
None == [tipo |-> "None", valor |-> <<>>]
Excecao == [tipo |-> "excecao", valor |-> <<>>]
Pendente == [tipo |-> "pendente", valor |-> <<>>]

\* ------------------------------------------------------------------- state

VARIABLES
    func,          \* the fetch function being executed
    pagina,        \* its `pagina`
    resultados,    \* its `resultados`
    ultimo_lote,   \* `ultimo_lote` of consultar_documentos_relacionados
    pc,            \* "loop" while in `while True`, "done" once returned
    retorno,       \* the value returned
    pedidos,       \* history: the page number of every request issued
    recebidos      \* history: the response to every request issued

pagVars == <<func, pagina, resultados, ultimo_lote, pc, retorno, pedidos, recebidos>>

VARIABLES
    servidor       \* what the remote endpoint holds and how it answers

servidorVars == <<servidor>>

VARIABLES
    sequencial,            \* `sequencial` of coletar_itens_empenho_completos
    falhas_consecutivas,   \* its `falhas_consecutivas`
    resultados_itens,      \* its `resultados`: sequencial -> events
    pcItens,               \* "loop" inside its while, "done" once returned
    retornoHistorico,      \* what the last consultar_historico_empenho returned
    ultimaResposta,        \* history: the response to the last history request
    consultados,           \* history: the sequencial of every history request
    comEventos             \* history: the sequenciais the server sent events for

itensVars ==
    <<sequencial, falhas_consecutivas, resultados_itens, pcItens,
      retornoHistorico, ultimaResposta, consultados, comEventos>>

VARIABLES
    fase,            \* argument `fase` of consultar_empenho_impactado
    empenho_alvo,    \* argument `empenho_alvo`
    data,            \* `data`, the decoded response
    indice,          \* position of the `for item in data` loop
    valor_total,     \* `valor_total`
    encontrado,      \* `encontrado`
    pcImpactado,     \* "get", "for", "return" or "done"
    retornoImpactado,\* the value returned, or the exception raised
    respostaImpactado \* history: the response to the request

impactadoVars ==
    <<fase, empenho_alvo, data, indice, valor_total, encontrado, pcImpactado,
      retornoImpactado, respostaImpactado>>

VARIABLES
    df_empenhos,              \* the rows read from the spreadsheet
    linha,                    \* position of `for index, row in df_empenhos.iterrows()`
    resultados_consolidados,  \* `resultados_consolidados`
    pcSaldos,                 \* "parado", "consultando" (inside the fetch) or "fim"
    falharam                  \* history: the rows whose fetch met a failed request

saldosVars == <<df_empenhos, linha, resultados_consolidados, pcSaldos, falharam>>

VARIABLES
    eventos,          \* the ledger events handed to aggregate
    posEvento,        \* position of the fold in eventos
    initialValue,     \* total of the Inclusion events folded
    reinforcedValue,  \* total of the Reinforcement events folded
    cancelledValue,   \* total of the Cancellation events folded
    currentValue,     \* the running total
    pcAggregate,      \* "fold" while events remain, "done" once returned
    antesDoEvento     \* history: the four totals before the last event folded

aggregateVars ==
    <<eventos, posEvento, initialValue, reinforcedValue, cancelledValue,
      currentValue, pcAggregate, antesDoEvento>>

VARIABLES
    valorFormatar,    \* argument `valor` of formatar_valor
    textoFormatado,   \* what formatar_valor returned
    valorRelido,      \* the Decimal read back from that text
    pcFormatar        \* "formatar", "ler" or "done"

formatarVars == <<valorFormatar, textoFormatado, valorRelido, pcFormatar>>

VARIABLES
    textoValor,       \* the text handed to each of the three parsing sites
    lidoProcessar,    \* what processar_valor returned for it
    lidoLimpar,       \* what limpar_valor returned for it
    lidoCampo,        \* what the attribution call's inline parse made of it
    pcLeitura         \* "processar_valor", "limpar_valor", "campo" or "done"

leituraVars == <<textoValor, lidoProcessar, lidoLimpar, lidoCampo, pcLeitura>>

VARIABLES
    df,                 \* the main table of processar_dados_financeiros
    dfLido,             \* history: the table as it stood before step 5
    registros_normais,  \* the rows exported as normal
    ajustes_negativos,  \* the rows exported as negative adjustments
    pcFinanceiro        \* "duplicatas", "classificar", "separar" or "done"

financeiroVars ==
    <<df, dfLido, registros_normais, ajustes_negativos, pcFinanceiro>>

vars ==
    <<pagVars, servidorVars, itensVars, impactadoVars, saldosVars, aggregateVars,
      formatarVars, leituraVars, financeiroVars>>

\* What a paginated fetch leaves alone.
foraPaginacao ==
    <<itensVars, impactadoVars, saldosVars, aggregateVars, formatarVars, servidorVars, leituraVars,
      financeiroVars>>

\* What coletar_itens_empenho_completos leaves alone.
foraItens ==
    <<pagVars, impactadoVars, saldosVars, aggregateVars, formatarVars, servidorVars, leituraVars,
      financeiroVars>>

\* What consultar_empenho_impactado leaves alone.
foraImpactado ==
    <<pagVars, itensVars, saldosVars, aggregateVars, formatarVars, servidorVars, leituraVars,
      financeiroVars>>

\* What calcular_saldos leaves alone.
foraSaldos ==
    <<itensVars, impactadoVars, aggregateVars, formatarVars, servidorVars, leituraVars,
      financeiroVars>>

\* What aggregate leaves alone.
foraAggregate ==
    <<pagVars, itensVars, impactadoVars, saldosVars, formatarVars, servidorVars, leituraVars,
      financeiroVars>>

\* What formatar_valor and the reading of its text leave alone.
foraFormatar ==
    <<pagVars, itensVars, impactadoVars, saldosVars, aggregateVars, servidorVars, leituraVars,
      financeiroVars>>

\* What the three parsing sites leave alone.
foraLeitura ==
    <<pagVars, itensVars, impactadoVars, saldosVars, aggregateVars, formatarVars,
      servidorVars, financeiroVars>>

\* What processar_dados_financeiros leaves alone.
foraFinanceiro ==
    <<pagVars, itensVars, impactadoVars, saldosVars, aggregateVars, formatarVars,
      servidorVars, leituraVars>>

\* An endpoint that may answer any request with any response.
ServidorLivre == [modo |-> "livre", paginas |-> 0, ultima |-> 0]

\* Pages held by an endpoint that repeats its last page.
MaxPaginasServidor == 2

\* Endpoints holding `paginas` pages, the last of `ultima` records and the
\* others full, that answer every page number beyond the data with the last
\* page again; an endpoint holding nothing answers with an empty body.
ServidoresQueRepetem ==
    { [modo |-> "repete", paginas |-> 0, ultima |-> 0] }
        \cup { [modo |-> "repete", paginas |-> k, ultima |-> u] :
                   k \in 1..MaxPaginasServidor, u \in {1, TamCurto, TamanhoPagina} }

\* The answer of a repeating endpoint to the request for page p.
RespostaDaPagina(p) ==
    IF servidor.paginas = 0 THEN RespostaVazia
    ELSE LET q == IF p <= servidor.paginas THEN p ELSE servidor.paginas IN
         [tipo |-> "ok", id |-> q,
          n |-> IF q = servidor.paginas THEN servidor.ultima ELSE TamanhoPagina]

\* The responses the request for the current page may get.
RespostasDoServidor ==
    IF servidor.modo = "livre" THEN Respostas ELSE {RespostaDaPagina(pagina)}

Funcoes ==
    { "consultar_dados_por_fase",
      "consultar_documentos_relacionados",
      "consultar_pagamentos_relacionados",
      "coletar_dados_por_fase",
      "data_portal.coletar_dados_por_fase" }

\* No fetch is running.
PaginacaoParada ==
    /\ servidor = ServidorLivre
    /\ func = "nenhuma"
    /\ pagina = 1
    /\ resultados = <<>>
    /\ ultimo_lote = <<>>
    /\ pc = "done"
    /\ retorno = Pendente
    /\ pedidos = <<>>
    /\ recebidos = <<>>

\* The locals as set before `while True`.
InicioPaginacao(f) ==
    /\ func = f
    /\ pagina = 1
    /\ resultados = <<>>
    /\ ultimo_lote = <<>>
    /\ pc = "loop"
    /\ retorno = Pendente
    /\ pedidos = <<>>
    /\ recebidos = <<>>

\* One request: the histories record it.
Requisicao(r) ==
    /\ pedidos' = Append(pedidos, pagina)
    /\ recebidos' = Append(recebidos, r)

Retorna(v) ==
    /\ pc' = "done"
    /\ retorno' = v

\* A plausible slip: the page number advanced twice.
ProximaPaginaSaltada(p) == p + 2

\* `pagina += 1`
ProximaPagina(p) == p + 1

\* A plausible slip: the test for an empty body left out.
CorpoVazioIgnorado(dados) == FALSE

\* `not dados`: the decoded body is empty (an empty list, or null).
CorpoVazio(dados) == dados = <<>>

\* A plausible slip: the size test left out, as in the older fetch loops.
UltimaPaginaOmitida(dados) == FALSE

\* `len(dados) < 500`: the batch is the last page.
UltimaPagina(dados) == Len(dados) < TamanhoPagina

\* api_client.consultar_dados_por_fase: one pass of the loop body.
ConsultarDadosPorFase ==
    /\ func = "consultar_dados_por_fase"
    /\ pc = "loop"
    /\ pagina <= MaxPaginas
    /\ UNCHANGED foraPaginacao
    /\ \E r \in RespostasDoServidor :
        /\ Requisicao(r)
        /\ UNCHANGED <<func, ultimo_lote>>
        /\ IF EhErro(r)
           THEN /\ Retorna(Lista(resultados))
                /\ UNCHANGED <<pagina, resultados>>
           ELSE LET dados == Dados(r) IN
                IF CorpoVazio(dados)
                THEN /\ Retorna(Lista(resultados))
                     /\ UNCHANGED <<pagina, resultados>>
                ELSE /\ resultados' = resultados \o dados
                     /\ IF UltimaPagina(dados)
                        THEN /\ Retorna(Lista(resultados'))
                             /\ UNCHANGED pagina
                        ELSE /\ pagina' = ProximaPagina(pagina)
                             /\ UNCHANGED <<pc, retorno>>

\* A plausible slip: the comparison with the previous batch left out.
LoteRepetidoNunca(dados, ultimo) == FALSE

\* The duplicate test `dados == ultimo_lote`; ultimo_lote starts as None.
LoteRepetido(dados, ultimo) == ultimo # <<>> /\ dados = ultimo[1]

\* A plausible slip: the `except` clause returning what was collected.
RetornoErroDocumentosParcial(res) == Lista(res)

\* The value returned from the `except` clause.
RetornoErroDocumentos(res) == Lista(<<>>)

\* api_client.consultar_documentos_relacionados: one pass of the loop body.
ConsultarDocumentosRelacionados ==
    /\ func = "consultar_documentos_relacionados"
    /\ pc = "loop"
    /\ pagina <= MaxPaginas
    /\ UNCHANGED foraPaginacao
    /\ \E r \in RespostasDoServidor :
        /\ Requisicao(r)
        /\ UNCHANGED func
        /\ IF EhErro(r)
           THEN /\ Retorna(RetornoErroDocumentos(resultados))
                /\ UNCHANGED <<pagina, resultados, ultimo_lote>>
           ELSE LET dados == Dados(r) IN
                IF CorpoVazio(dados) \/ LoteRepetido(dados, ultimo_lote)
                THEN /\ Retorna(Lista(resultados))
                     /\ UNCHANGED <<pagina, resultados, ultimo_lote>>
                ELSE /\ ultimo_lote' = <<dados>>
                     /\ resultados' = resultados \o dados
                     /\ IF UltimaPagina(dados)
                        THEN /\ Retorna(Lista(resultados'))
                             /\ UNCHANGED pagina
                        ELSE /\ pagina' = ProximaPagina(pagina)
                             /\ UNCHANGED <<pc, retorno>>

\* What the server answers to the fetch of one commitment inside
\* calcular_saldos: a failure, an empty body, a full page or a last page.
RespostasPorEmpenho ==
    { [tipo |-> "http", id |-> 0, n |-> 0],
      RespostaVazia,
      [tipo |-> "ok", id |-> 1, n |-> TamanhoPagina],
      [tipo |-> "ok", id |-> 2, n |-> TamCurto] }

\* The environment of consultar_pagamentos_relacionados: called alone, or by
\* calcular_saldos.
RespostasPagamentos ==
    IF pcSaldos = "parado" THEN RespostasDoServidor ELSE RespostasPorEmpenho

LimitePaginasPagamentos ==
    IF pcSaldos = "parado" THEN MaxPaginas ELSE MaxPaginasPorEmpenho

\* calculate_balances.consultar_pagamentos_relacionados: one pass of the loop.
ConsultarPagamentosRelacionados ==
    /\ func = "consultar_pagamentos_relacionados"
    /\ pc = "loop"
    /\ pagina <= LimitePaginasPagamentos
    /\ UNCHANGED foraPaginacao
    /\ \E r \in RespostasPagamentos :
        /\ Requisicao(r)
        /\ UNCHANGED <<func, ultimo_lote>>
        /\ IF EhErro(r)
           THEN /\ Retorna(None)
                /\ UNCHANGED <<pagina, resultados>>
           ELSE LET dados == Dados(r) IN
                IF CorpoVazio(dados)
                THEN /\ Retorna(Lista(resultados))
                     /\ UNCHANGED <<pagina, resultados>>
                ELSE /\ resultados' = resultados \o dados
                     /\ IF UltimaPagina(dados)
                        THEN /\ Retorna(Lista(resultados'))
                             /\ UNCHANGED pagina
                        ELSE /\ pagina' = ProximaPagina(pagina)
                             /\ UNCHANGED <<pc, retorno>>

\* extraction.coletar_dados_por_fase: one pass of the loop body.
ColetarDadosPorFase ==
    /\ func = "coletar_dados_por_fase"
    /\ pc = "loop"
    /\ pagina <= MaxPaginas
    /\ UNCHANGED foraPaginacao
    /\ \E r \in RespostasDoServidor :
        /\ Requisicao(r)
        /\ UNCHANGED <<func, ultimo_lote>>
        /\ IF EhErro(r)
           THEN /\ Retorna(Lista(resultados))
                /\ UNCHANGED <<pagina, resultados>>
           ELSE LET dados == Dados(r) IN
                IF CorpoVazio(dados)
                THEN /\ Retorna(Lista(resultados))
                     /\ UNCHANGED <<pagina, resultados>>
                ELSE /\ resultados' = resultados \o dados
                     /\ pagina' = ProximaPagina(pagina)
                     /\ UNCHANGED <<pc, retorno>>

\* data_portal.coletar_dados_por_fase: one pass of the loop body.  requests.get
\* is not inside a try: a network error leaves the function as an exception.
ColetarDadosPorFasePortal ==
    /\ func = "data_portal.coletar_dados_por_fase"
    /\ pc = "loop"
    /\ pagina <= MaxPaginas
    /\ UNCHANGED foraPaginacao
    /\ \E r \in RespostasDoServidor :
        /\ Requisicao(r)
        /\ UNCHANGED <<func, ultimo_lote>>
        /\ IF r.tipo = "rede"
           THEN /\ Retorna(Excecao)
                /\ UNCHANGED <<pagina, resultados>>
           ELSE IF r.tipo = "http"
           THEN /\ Retorna(Lista(resultados))
                /\ UNCHANGED <<pagina, resultados>>
           ELSE LET dados == Dados(r) IN
                IF CorpoVazio(dados)
                THEN /\ Retorna(Lista(resultados))
                     /\ UNCHANGED <<pagina, resultados>>
                ELSE /\ resultados' = resultados \o dados
                     /\ pagina' = ProximaPagina(pagina)
                     /\ UNCHANGED <<pc, retorno>>

\* ------------------------------------------------- ledger sequence scan

\* The default of the parameter max_sequenciais.
MaxSequenciais == 20
\* limite_falhas.
LimiteFalhas == 3

\* The events the ledger holds for sequence s.
HistoricoDe(s) == << [sequencial |-> s, operacao |-> "INCLUSAO"] >>

\* The pages the ledger holds for sequence s: every fourth sequence has a
\* second page.
PaginasDoHistorico(s) == IF s % 4 = 0 THEN 2 ELSE 1

\* The events on page p of sequence s; page 1 is what a request with the
\* default `pagina` is answered with.
HistoricoNaPagina(s, p) ==
    IF p = 1 THEN HistoricoDe(s)
    ELSE IF p <= PaginasDoHistorico(s)
    THEN << [sequencial |-> s, operacao |-> "REFORCO"] >>
    ELSE <<>>

\* What the history endpoint can answer for sequence s: a transport failure,
\* an empty list, or the events of s.
RespostasHistorico(s) ==
    { [tipo |-> "erro", dados |-> <<>>],
      [tipo |-> "ok", dados |-> <<>>],
      [tipo |-> "ok", dados |-> HistoricoDe(s)] }

\* consultar_historico_empenho: `dados` on success, [] from the except clause.
ConsultarHistoricoEmpenho(r) == IF r.tipo = "ok" THEN r.dados ELSE <<>>

\* A plausible slip: `>` for `>=`.
LimiteAtingidoEstrito(f) == f > LimiteFalhas

\* `falhas_consecutivas >= limite_falhas`.
LimiteAtingido(f) == f >= LimiteFalhas

\* A plausible slip: the counter not reset on a hit.
FalhasAposAcertoSemReset(f) == f

\* `falhas_consecutivas = 0` on a hit.
FalhasAposAcerto(f) == 0

ItensParados ==
    /\ sequencial = 1
    /\ falhas_consecutivas = 0
    /\ resultados_itens = <<>>
    /\ pcItens = "done"
    /\ retornoHistorico = <<>>
    /\ ultimaResposta = [tipo |-> "nenhuma", dados |-> <<>>]
    /\ consultados = <<>>
    /\ comEventos = {}

\* The locals of coletar_itens_empenho_completos before its while.
InicioItens ==
    /\ sequencial = 1
    /\ falhas_consecutivas = 0
    /\ resultados_itens = <<>>
    /\ pcItens = "loop"
    /\ retornoHistorico = <<>>
    /\ ultimaResposta = [tipo |-> "nenhuma", dados |-> <<>>]
    /\ consultados = <<>>
    /\ comEventos = {}

\* `resultados[sequencial] = dados` on a dict.
DictSet(d, k, v) == [x \in DOMAIN d \cup {k} |-> IF x = k THEN v ELSE d[x]]

\* coletar_itens_empenho_completos: one pass of the while body, followed by
\* the test of the while condition for the next pass.
ColetarItensEmpenhoCompletos ==
    /\ pcItens = "loop"
    /\ sequencial <= MaxSequenciais
    /\ \E r \in RespostasHistorico(sequencial) :
        LET dados == ConsultarHistoricoEmpenho(r) IN
        /\ ultimaResposta' = r
        /\ retornoHistorico' = dados
        /\ consultados' = Append(consultados, sequencial)
        /\ comEventos' = IF r.tipo = "ok" /\ r.dados # <<>>
                         THEN comEventos \cup {sequencial}
                         ELSE comEventos
        /\ IF dados # <<>>
           THEN /\ resultados_itens' = DictSet(resultados_itens, sequencial, dados)
                /\ falhas_consecutivas' = FalhasAposAcerto(falhas_consecutivas)
                /\ sequencial' = sequencial + 1
                /\ pcItens' = IF sequencial' <= MaxSequenciais THEN "loop" ELSE "done"
           ELSE /\ falhas_consecutivas' = falhas_consecutivas + 1
                /\ UNCHANGED resultados_itens
                /\ IF LimiteAtingido(falhas_consecutivas')
                   THEN /\ pcItens' = "done"
                        /\ UNCHANGED sequencial
                   ELSE /\ sequencial' = sequencial + 1
                        /\ pcItens' = IF sequencial' <= MaxSequenciais
                                      THEN "loop" ELSE "done"
    /\ UNCHANGED foraItens

\* ------------------------------------------------------ monetary strings

\* A Python str is a sequence of one-character strings; a Decimal is
\* coef * 10^(-casas), as the decimal module keeps it.
Digitos == {"0", "1", "2", "3", "4", "5", "6", "7", "8", "9"}

ValorDoDigito(c) ==
    CASE c = "0" -> 0 [] c = "1" -> 1 [] c = "2" -> 2 [] c = "3" -> 3
      [] c = "4" -> 4 [] c = "5" -> 5 [] c = "6" -> 6 [] c = "7" -> 7
      [] c = "8" -> 8 [] c = "9" -> 9

RECURSIVE Pot10(_)
Pot10(n) == IF n = 0 THEN 1 ELSE 10 * Pot10(n - 1)

RECURSIVE NumeroDe(_)
\* The number a sequence of digits writes.
NumeroDe(ds) ==
    IF ds = <<>> THEN 0
    ELSE 10 * NumeroDe(SubSeq(ds, 1, Len(ds) - 1)) + ValorDoDigito(ds[Len(ds)])

\* str.replace(c, ''): every c removed.
SemCaractere(s, c) == SelectSeq(s, LAMBDA x : x # c)

\* str.replace(a, b) for single characters.
TrocaCaractere(s, a, b) == [i \in 1..Len(s) |-> IF s[i] = a THEN b ELSE s[i]]

Ocorrencias(s, c) == Len(SelectSeq(s, LAMBDA x : x = c))

\* The position of the first c in s, 0 when s has none.
PosicaoDe(s, c) ==
    IF Ocorrencias(s, c) = 0 THEN 0
    ELSE CHOOSE i \in 1..Len(s) : s[i] = c /\ \A j \in 1..(i - 1) : s[j] # c

\* s without a leading sign.
SemSinal(s) == IF s # <<>> /\ s[1] \in {"-", "+"} THEN Tail(s) ELSE s

\* Whether Decimal(s) accepts s: an optional sign, digits with at most one
\* point, at least one digit.
DecimalValido(s) ==
    LET corpo == SemSinal(s) IN
    /\ \A i \in 1..Len(corpo) : corpo[i] \in Digitos \cup {"."}
    /\ Ocorrencias(corpo, ".") <= 1
    /\ Len(SemCaractere(corpo, ".")) >= 1

\* Decimal(s) for an accepted s.
DecimalDe(s) ==
    LET corpo == SemSinal(s)
        p == PosicaoDe(corpo, ".")
        n == NumeroDe(SemCaractere(corpo, "."))
    IN  [coef |-> IF s[1] = "-" THEN 0 - n ELSE n,
         casas |-> IF p = 0 THEN 0 ELSE Len(corpo) - p]

\* Decimal('0').
DecimalZero == [coef |-> 0, casas |-> 0]

\* a + b on Decimals: exact, with the finer of the two exponents.
SomaDecimal(a, b) ==
    LET e == IF a.casas >= b.casas THEN a.casas ELSE b.casas IN
    [coef |-> a.coef * Pot10(e - a.casas) + b.coef * Pot10(e - b.casas),
     casas |-> e]

\* Numeric equality of Decimals.
MesmoValor(a, b) == a.coef * Pot10(b.casas) = b.coef * Pot10(a.casas)

\* valor_str.replace('.', '').replace(',', '.')
FormatoBrParaPonto(s) == TrocaCaractere(SemCaractere(s, "."), ",", ".")

\* ----------------------------------------------------- attribution call

\* Impact records one response may hold.
MaxItens == 3

\* "1.500,00", "0,00", "250,50", "100,00", "x"
TxtMilQuinhentos == <<"1", ".", "5", "0", "0", ",", "0", "0">>
TxtZero == <<"0", ",", "0", "0">>
TxtDuzentos == <<"2", "5", "0", ",", "5", "0">>
TxtCem == <<"1", "0", "0", ",", "0", "0">>
TxtInvalido == <<"x">>

\* The impact records the endpoint may list.
ItensImpacto ==
    { [empenho |-> "X", valorPago |-> TxtMilQuinhentos, valorRestoPago |-> TxtZero,
       valorLiquidado |-> TxtMilQuinhentos],
      [empenho |-> "X", valorPago |-> TxtDuzentos, valorRestoPago |-> TxtCem,
       valorLiquidado |-> TxtDuzentos],
      [empenho |-> "Z", valorPago |-> TxtCem, valorRestoPago |-> TxtCem,
       valorLiquidado |-> TxtCem],
      [empenho |-> "X", valorPago |-> TxtInvalido, valorRestoPago |-> TxtZero,
       valorLiquidado |-> <<>>],
      [empenho |-> "Z"],
      [valorPago |-> TxtCem] }

Alvos == {"X", "Y"}
Fases == {1, 2, 3}

RECURSIVE ListasAte(_, _)
\* The lists of at most n elements of S.
ListasAte(S, n) ==
    IF n = 0 THEN {<<>>}
    ELSE LET menores == ListasAte(S, n - 1) IN
         menores \cup {Append(l, x) : l \in {m \in menores : Len(m) = n - 1}, x \in S}

\* What the empenhos-impactados request can produce: a transport failure, a
\* body that is not JSON, or a list of impact records.
RespostasImpactado ==
    { [tipo |-> t, data |-> <<>>] : t \in {"http", "rede", "json"} }
        \cup { [tipo |-> "ok", data |-> l] : l \in ListasAte(ItensImpacto, MaxItens) }

\* dict.get(k, padrao); a missing key of item.get('empenho') gives None.
Get(item, k, padrao) == IF k \in DOMAIN item THEN item[k] ELSE padrao

\* A plausible slip: the comparison with empenho_alvo left out.
CoincideSempre(item, alvo) == TRUE

\* `item.get('empenho') == empenho_alvo`.
Coincide(item, alvo) == "empenho" \in DOMAIN item /\ item.empenho = alvo

\* A plausible slip: valorRestoPago left out of the payment fields.
CamposSemRestoPago(f) ==
    IF f = 3 THEN <<"valorPago">>
    ELSE IF f = 2 THEN <<"valorLiquidado">>
    ELSE <<>>

\* `campos`, chosen by fase.
Campos(f) ==
    IF f = 3 THEN <<"valorPago", "valorRestoPago">>
    ELSE IF f = 2 THEN <<"valorLiquidado">>
    ELSE <<>>

Valor(d) == [tipo |-> "valor", valor |-> d]
ExcecaoImpactado == [tipo |-> "excecao", valor |-> DecimalZero]
SemRetorno == [tipo |-> "pendente", valor |-> DecimalZero]

\* A plausible slip: the except clauses returning zero instead of raising.
ErroImpactadoComoZero == Valor(DecimalZero)

\* `raise Exception(error_msg)` of the three except clauses.
ErroImpactado == ExcecaoImpactado

RECURSIVE SomaCampos(_, _, _)
\* `for campo in campos`: the running total after the fields cs of item, or
\* the exception Decimal() raises on a value it does not accept.
SomaCampos(item, cs, total) ==
    IF cs = <<>> THEN Valor(total)
    ELSE LET valor_str == Get(item, Head(cs), TxtZero) IN
         IF valor_str # <<>> /\ valor_str # TxtZero
         THEN IF DecimalValido(FormatoBrParaPonto(valor_str))
              THEN SomaCampos(item, Tail(cs),
                              SomaDecimal(total, DecimalDe(FormatoBrParaPonto(valor_str))))
              ELSE ErroImpactado
         ELSE SomaCampos(item, Tail(cs), total)

ImpactadoParado ==
    /\ fase = 0
    /\ empenho_alvo = ""
    /\ data = <<>>
    /\ indice = 1
    /\ valor_total = DecimalZero
    /\ encontrado = FALSE
    /\ pcImpactado = "done"
    /\ retornoImpactado = SemRetorno
    /\ respostaImpactado = [tipo |-> "nenhuma", data |-> <<>>]

\* consultar_empenho_impactado called with fase f and empenho_alvo a.
InicioImpactado(f, a) ==
    /\ fase = f
    /\ empenho_alvo = a
    /\ data = <<>>
    /\ indice = 1
    /\ valor_total = DecimalZero
    /\ encontrado = FALSE
    /\ pcImpactado = "get"
    /\ retornoImpactado = SemRetorno
    /\ respostaImpactado = [tipo |-> "nenhuma", data |-> <<>>]

\* requests.get, raise_for_status and response.json().
ImpactadoRequisicao ==
    /\ pcImpactado = "get"
    /\ \E r \in RespostasImpactado :
        /\ respostaImpactado' = r
        /\ IF r.tipo # "ok"
           THEN /\ retornoImpactado' = ErroImpactado
                /\ pcImpactado' = "done"
                /\ UNCHANGED data
           ELSE /\ data' = r.data
                /\ pcImpactado' = "for"
                /\ UNCHANGED retornoImpactado
    /\ UNCHANGED <<fase, empenho_alvo, indice, valor_total, encontrado>>
    /\ UNCHANGED foraImpactado

\* One pass of `for item in data`; past the last item the loop is left.
ImpactadoItem ==
    /\ pcImpactado = "for"
    /\ IF indice > Len(data)
       THEN /\ pcImpactado' = "return"
            /\ UNCHANGED <<indice, valor_total, encontrado, retornoImpactado>>
       ELSE IF Coincide(data[indice], empenho_alvo)
       THEN LET soma == SomaCampos(data[indice], Campos(fase), valor_total) IN
            /\ encontrado' = TRUE
            /\ IF soma.tipo = "valor"
               THEN /\ valor_total' = soma.valor
                    /\ pcImpactado' = "return"
                    /\ UNCHANGED retornoImpactado
               ELSE /\ retornoImpactado' = soma
                    /\ pcImpactado' = "done"
                    /\ UNCHANGED valor_total
            /\ UNCHANGED indice
       ELSE /\ indice' = indice + 1
            /\ UNCHANGED <<valor_total, encontrado, pcImpactado, retornoImpactado>>
    /\ UNCHANGED <<fase, empenho_alvo, data, respostaImpactado>>
    /\ UNCHANGED foraImpactado

\* `return valor_total`.
ImpactadoRetorno ==
    /\ pcImpactado = "return"
    /\ retornoImpactado' = Valor(valor_total)
    /\ pcImpactado' = "done"
    /\ UNCHANGED <<fase, empenho_alvo, data, indice, valor_total, encontrado,
                   respostaImpactado>>
    /\ UNCHANGED foraImpactado

\* --------------------------------------------------- batch balance driver

\* float(valor_limpo) accepts what Decimal() accepts of these characters; the
\* float is kept as the exact decimal it reads, without trailing zeros.
RECURSIVE Normalizado(_)
Normalizado(d) ==
    IF d.casas > 0 /\ d.coef % 10 = 0
    THEN Normalizado([coef |-> d.coef \div 10, casas |-> d.casas - 1])
    ELSE d

SomaFloat(a, b) == Normalizado(SomaDecimal(a, b))

\* A plausible slip: a balance never let below zero.
SubtraiFloatSemNegativo(a, b) ==
    IF a.coef * Pot10(b.casas) < b.coef * Pot10(a.casas) THEN [coef |-> 0, casas |-> 0]
    ELSE SomaFloat(a, [coef |-> 0 - b.coef, casas |-> b.casas])

\* `valor_empenho - total_pago` on floats.
SubtraiFloat(a, b) == SomaFloat(a, [coef |-> 0 - b.coef, casas |-> b.casas])

\* processar_valor on a str: keep digits, '.', ',' and '-'; with both
\* separators drop '.' and turn ',' into '.', with ',' alone turn it into
\* '.'; float() of the rest, 0.0 when float() refuses it.
ProcessarValor(valor_str) ==
    LET valor_filtrado ==
            SelectSeq(valor_str, LAMBDA c : c \in Digitos \cup {".", ",", "-"})
        valor_limpo ==
            IF Ocorrencias(valor_filtrado, ",") > 0 /\ Ocorrencias(valor_filtrado, ".") > 0
            THEN FormatoBrParaPonto(valor_filtrado)
            ELSE IF Ocorrencias(valor_filtrado, ",") > 0
            THEN TrocaCaractere(valor_filtrado, ",", ".")
            ELSE valor_filtrado
    IN  IF valor_str = <<>> THEN DecimalZero
        ELSE IF DecimalValido(valor_limpo) THEN Normalizado(DecimalDe(valor_limpo))
        ELSE DecimalZero

\* The `valor` field of the related documents, by document number.
TextosDeValor == <<TxtCem, TxtDuzentos, TxtMilQuinhentos>>

ValoresProcessados == [k \in 1..Len(TextosDeValor) |-> ProcessarValor(TextosDeValor[k])]

\* processar_valor(pagamento.get('valor', 0)) of document n.
ValorPagoDe(n) == ValoresProcessados[(n % Len(TextosDeValor)) + 1]

\* The `fase` field of related document n, as the endpoint lists it: payments
\* (3), settlements (2) and documents of another phase (1) interleaved.
FaseDoDocumento(n) ==
    CASE n % 4 = 0 -> 2
      [] n % 4 = 3 -> 1
      [] OTHER -> 3

RECURSIVE SomaPagamentos(_, _, _)
\* `total_pago` after the documents a..b of pagamentos, added from 0.0.
SomaPagamentos(pagamentos, a, b) ==
    IF a > b THEN DecimalZero
    ELSE IF a = b THEN ValorPagoDe(pagamentos[a])
    ELSE LET m == (a + b) \div 2 IN
         SomaFloat(SomaPagamentos(pagamentos, a, m), SomaPagamentos(pagamentos, m + 1, b))

\* `if pagamentos_relacionados:` on what the fetch returned.
Verdadeiro(v) == v.tipo = "lista" /\ v.valor # <<>>

\* The total paid calcular_saldos computes from what the fetch returned.
TotalPago(v) ==
    IF Verdadeiro(v) THEN SomaPagamentos(v.valor, 1, Len(v.valor)) ELSE DecimalZero

\* The `resultado` dict of one row.
Resultado(row, v) ==
    LET valor_empenho == ProcessarValor(row.valor)
        total_pago == TotalPago(v)
    IN  [codigo_empenho |-> row.documento,
         valor_empenho |-> valor_empenho,
         total_pago |-> total_pago,
         saldo |-> SubtraiFloat(valor_empenho, total_pago),
         qtd_pagamentos |-> IF Verdadeiro(v) THEN Len(v.valor) ELSE 0]

\* The spreadsheets read: rows with distinct documents 1, 2, ... and a valor.
ValoresDeEmpenho == {TxtMilQuinhentos, TxtCem}

Planilhas ==
    UNION { [1..n -> ValoresDeEmpenho] : n \in 1..MaxEmpenhos }

SaldosParado ==
    /\ df_empenhos = <<>>
    /\ linha = 1
    /\ resultados_consolidados = <<>>
    /\ pcSaldos = "parado"
    /\ falharam = {}

\* The call of consultar_pagamentos_relacionados for the current row.
ChamaPagamentos ==
    /\ func' = "consultar_pagamentos_relacionados"
    /\ pagina' = 1
    /\ resultados' = <<>>
    /\ ultimo_lote' = <<>>
    /\ pc' = "loop"
    /\ retorno' = Pendente
    /\ pedidos' = <<>>
    /\ recebidos' = <<>>

\* calcular_saldos at the first row, inside consultar_pagamentos_relacionados.
InicioSaldos(valores) ==
    /\ df_empenhos = [i \in 1..Len(valores) |-> [documento |-> i, valor |-> valores[i]]]
    /\ linha = 1
    /\ resultados_consolidados = <<>>
    /\ pcSaldos = "consultando"
    /\ falharam = {}
    /\ InicioPaginacao("consultar_pagamentos_relacionados")

\* The body of the for loop after consultar_pagamentos_relacionados returned:
\* the totals, the append, and the call for the next row.
ConsolidarEmpenho ==
    /\ pcSaldos = "consultando"
    /\ pc = "done"
    /\ resultados_consolidados' =
           Append(resultados_consolidados, Resultado(df_empenhos[linha], retorno))
    /\ falharam' = IF \E i \in 1..Len(recebidos) : EhErro(recebidos[i])
                   THEN falharam \cup {linha} ELSE falharam
    /\ linha' = linha + 1
    /\ IF linha' <= Len(df_empenhos)
       THEN /\ ChamaPagamentos
            /\ UNCHANGED pcSaldos
       ELSE /\ pcSaldos' = "fim"
            /\ UNCHANGED pagVars
    /\ UNCHANGED df_empenhos
    /\ UNCHANGED foraSaldos

\* ---------------------------------------------------- ledger aggregation

\* Events one history may hold.
MaxEventos == 3

\* The operation types of the ledger, and one the aggregator does not know.
Operacoes == {"INCLUSAO", "REFORCO", "ANULACAO", "ESTORNO"}

\* The amounts an event may carry: 100.00 and 250.50.
QuantiasDeEvento == { [coef |-> 10000, casas |-> 2], [coef |-> 25050, casas |-> 2] }

EventosPossiveis == [operacao : Operacoes, valor : QuantiasDeEvento]

\* -d on a Decimal.
Negativo(d) == [coef |-> 0 - d.coef, casas |-> d.casas]

\* a <= b on Decimals.
MenorOuIgual(a, b) == a.coef * Pot10(b.casas) <= b.coef * Pot10(a.casas)

\* A plausible slip: a Cancellation added like a Reinforcement.
SinalComAnulacaoSomada(op) ==
    IF op \in {"INCLUSAO", "REFORCO", "ANULACAO"} THEN 1 ELSE 0

\* The switch on the operation type: Inclusion and Reinforcement add to the
\* running total, Cancellation subtracts, any other type is ignored.
SinalDaOperacao(op) ==
    CASE op \in {"INCLUSAO", "REFORCO"} -> 1
      [] op = "ANULACAO" -> -1
      [] OTHER -> 0

\* The four totals as one record.
Totais == [initialValue |-> initialValue, reinforcedValue |-> reinforcedValue,
           cancelledValue |-> cancelledValue, currentValue |-> currentValue]

AggregateParado ==
    /\ eventos = <<>>
    /\ posEvento = 1
    /\ initialValue = DecimalZero
    /\ reinforcedValue = DecimalZero
    /\ cancelledValue = DecimalZero
    /\ currentValue = DecimalZero
    /\ pcAggregate = "done"
    /\ antesDoEvento = Totais

\* aggregate before its first event.
InicioAggregate(evs) ==
    /\ eventos = evs
    /\ posEvento = 1
    /\ initialValue = DecimalZero
    /\ reinforcedValue = DecimalZero
    /\ cancelledValue = DecimalZero
    /\ currentValue = DecimalZero
    /\ pcAggregate = "fold"
    /\ antesDoEvento = Totais

\* One event folded into the totals.
AggregateEvento ==
    /\ pcAggregate = "fold"
    /\ posEvento <= Len(eventos)
    /\ LET ev == eventos[posEvento]
           sinal == SinalDaOperacao(ev.operacao)
       IN  /\ initialValue' = IF ev.operacao = "INCLUSAO"
                              THEN SomaDecimal(initialValue, ev.valor)
                              ELSE initialValue
           /\ reinforcedValue' = IF ev.operacao = "REFORCO"
                                 THEN SomaDecimal(reinforcedValue, ev.valor)
                                 ELSE reinforcedValue
           /\ cancelledValue' = IF ev.operacao = "ANULACAO"
                                THEN SomaDecimal(cancelledValue, ev.valor)
                                ELSE cancelledValue
           /\ currentValue' =
                  IF sinal = 1 THEN SomaDecimal(currentValue, ev.valor)
                  ELSE IF sinal = -1 THEN SomaDecimal(currentValue, Negativo(ev.valor))
                  ELSE currentValue
    /\ antesDoEvento' = Totais
    /\ posEvento' = posEvento + 1
    /\ UNCHANGED <<eventos, pcAggregate>>
    /\ UNCHANGED foraAggregate

\* The result returned once every event was folded.
AggregateRetorno ==
    /\ pcAggregate = "fold"
    /\ posEvento > Len(eventos)
    /\ pcAggregate' = "done"
    /\ UNCHANGED <<eventos, posEvento, initialValue, reinforcedValue, cancelledValue,
                   currentValue, antesDoEvento>>
    /\ UNCHANGED foraAggregate

\* ------------------------------------------------------- formatar_valor

\* The dense range of amounts, in hundredths, handed to formatar_valor.
MaxCentavos == 120

\* The digit character of k in 0..9.
Digito(k) == <<"0", "1", "2", "3", "4", "5", "6", "7", "8", "9">>[k + 1]

RECURSIVE TextoDe(_)
\* str(n) for n >= 0.
TextoDe(n) == IF n < 10 THEN <<Digito(n)>> ELSE Append(TextoDe(n \div 10), Digito(n % 10))

RECURSIVE Agrupado(_)
\* The ',' option of the format: a comma before every group of three digits.
Agrupado(ds) ==
    IF Len(ds) <= 3 THEN ds
    ELSE Agrupado(SubSeq(ds, 1, Len(ds) - 3)) \o <<",">> \o SubSeq(ds, Len(ds) - 2, Len(ds))

\* |d| in hundredths, as `.2f` rounds it (half to even).
Centesimos(d) ==
    LET a == IF d.coef < 0 THEN 0 - d.coef ELSE d.coef IN
    IF d.casas <= 2 THEN a * Pot10(2 - d.casas)
    ELSE LET m == Pot10(d.casas - 2)
             q == a \div m
             r == a % m
         IN  IF 2 * r > m \/ (2 * r = m /\ q % 2 = 1) THEN q + 1 ELSE q

\* f"{valor:,.2f}"
FormatoPython(d) ==
    LET c == Centesimos(d) IN
    (IF d.coef < 0 THEN <<"-">> ELSE <<>>)
        \o Agrupado(TextoDe(c \div 100))
        \o <<".", Digito((c % 100) \div 10), Digito(c % 10)>>

\* A plausible slip: the separators left as Python writes them.
SemTrocaDeSeparadores(s) == s

\* .replace(',', 'X').replace('.', ',').replace('X', '.')
TrocaSeparadores(s) ==
    TrocaCaractere(TrocaCaractere(TrocaCaractere(s, ",", "X"), ".", ","), "X", ".")

Texto(s) == [tipo |-> "str", valor |-> s]
DecimalPy(d) == [tipo |-> "Decimal", valor |-> d]
ExcecaoFormatar == [tipo |-> "excecao", valor |-> <<>>]

\* formatar_valor: a str is first read as a Decimal, which may raise.
FormatarValor(v) ==
    IF v.tipo = "str"
    THEN IF DecimalValido(FormatoBrParaPonto(v.valor))
         THEN Texto(TrocaSeparadores(FormatoPython(DecimalDe(FormatoBrParaPonto(v.valor)))))
         ELSE ExcecaoFormatar
    ELSE Texto(TrocaSeparadores(FormatoPython(v.valor)))

\* The amounts handed to formatar_valor: a dense range of hundredths, the
\* amounts around every power of ten up to a million, amounts with fewer or
\* more than two places, negative amounts, and texts.
CoeficientesEsparsos ==
    UNION { {Pot10(k) - 1, Pot10(k), Pot10(k) + 5} : k \in 3..8 }

ValoresAFormatar ==
    { DecimalPy([coef |-> c, casas |-> 2]) : c \in (0..MaxCentavos) \cup CoeficientesEsparsos }
        \cup { DecimalPy([coef |-> c, casas |-> e]) : c \in {0, 5, 15, 25, 1005, 123456}, e \in {0, 1, 3} }
        \cup { DecimalPy([coef |-> 0 - c, casas |-> 2]) : c \in {5, 100000} }
        \cup { Texto(t) : t \in {TxtMilQuinhentos, TxtZero, TxtDuzentos, TxtInvalido} }

FormatarParado ==
    /\ valorFormatar = DecimalPy(DecimalZero)
    /\ textoFormatado = Texto(<<>>)
    /\ valorRelido = SemRetorno
    /\ pcFormatar = "done"

\* No text is being parsed.
LeituraParada ==
    /\ textoValor = <<>>
    /\ lidoProcessar = None
    /\ lidoLimpar = None
    /\ lidoCampo = None
    /\ pcLeitura = "idle"

\* No file is being processed.
FinanceiroParado ==
    /\ df = <<>>
    /\ dfLido = <<>>
    /\ registros_normais = <<>>
    /\ ajustes_negativos = <<>>
    /\ pcFinanceiro = "idle"

InicioFormatar(v) ==
    /\ valorFormatar = v
    /\ textoFormatado = Texto(<<>>)
    /\ valorRelido = SemRetorno
    /\ pcFormatar = "formatar"

\* The call of formatar_valor.
FormatarValorChamada ==
    /\ pcFormatar = "formatar"
    /\ textoFormatado' = FormatarValor(valorFormatar)
    /\ pcFormatar' = IF textoFormatado'.tipo = "str" THEN "ler" ELSE "done"
    /\ UNCHANGED <<valorFormatar, valorRelido>>
    /\ UNCHANGED foraFormatar

\* The text read back as consultar_empenho_impactado reads a field.
LerTextoFormatado ==
    /\ pcFormatar = "ler"
    /\ valorRelido' =
           SomaCampos([valorLiquidado |-> textoFormatado.valor], Campos(2), DecimalZero)
    /\ pcFormatar' = "done"
    /\ UNCHANGED <<valorFormatar, textoFormatado>>
    /\ UNCHANGED foraFormatar

\* ------------------------------------------------ monetary parsing sites

\* Characters of the texts handed to the parsing sites.
MaxTexto == 4

\* "1.234,56", "1234,56", "1.234", "R$ 1.234,56", "- 75,88"
TxtMilComCentavos == <<"1", ".", "2", "3", "4", ",", "5", "6">>
TxtSoVirgula == <<"1", "2", "3", "4", ",", "5", "6">>
TxtSoPonto == <<"1", ".", "2", "3", "4">>
TxtComMoeda == <<"R", "$", " ", "1", ".", "2", "3", "4", ",", "5", "6">>
TxtSinalSolto == <<"-", " ", "7", "5", ",", "8", "8">>

\* The texts a value column may hold.
TextosDeEntrada ==
    (ListasAte({"0", "1", ".", ","}, MaxTexto) \ {<<>>})
        \cup {TxtMilComCentavos, TxtSoVirgula, TxtSoPonto, TxtComMoeda, TxtSinalSolto}

\* Whether s is made of digits, '.' and ',' only.
SoDigitosESeparadores(s) ==
    s # <<>> /\ \A i \in 1..Len(s) : s[i] \in Digitos \cup {".", ","}

Espacos == {" "}

RECURSIVE SemMoeda(_)
\* valor.replace("R$", ""): every "R$" removed, left to right.
SemMoeda(s) ==
    IF Len(s) < 2 THEN s
    ELSE IF s[1] = "R" /\ s[2] = "$" THEN SemMoeda(SubSeq(s, 3, Len(s)))
    ELSE <<s[1]>> \o SemMoeda(Tail(s))

RECURSIVE SemEspacosNoInicio(_)
SemEspacosNoInicio(s) ==
    IF s # <<>> /\ s[1] \in Espacos THEN SemEspacosNoInicio(Tail(s)) ELSE s

RECURSIVE SemEspacosNoFim(_)
SemEspacosNoFim(s) ==
    IF s # <<>> /\ s[Len(s)] \in Espacos
    THEN SemEspacosNoFim(SubSeq(s, 1, Len(s) - 1))
    ELSE s

\* str.strip()
Strip(s) == SemEspacosNoFim(SemEspacosNoInicio(s))

\* re.sub(r"^-?\s+", "-", valor): an optional '-' followed by at least one
\* space, at the start, becomes '-'.
SinalJunto(s) ==
    LET resto == IF s # <<>> /\ s[1] = "-" THEN Tail(s) ELSE s IN
    IF resto # <<>> /\ resto[1] \in Espacos
    THEN <<"-">> \o SemEspacosNoInicio(resto)
    ELSE s

\* np.nan
NaN == [tipo |-> "nan", valor |-> DecimalZero]

\* limpar_valor on a str: "R$" and every '.' removed, ',' turned into '.',
\* stripped, a loose sign joined; float() of the rest, np.nan when float()
\* refuses it.
LimparValor(valor) ==
    LET limpo == SinalJunto(Strip(FormatoBrParaPonto(SemMoeda(valor)))) IN
    IF DecimalValido(limpo) THEN Valor(Normalizado(DecimalDe(limpo))) ELSE NaN

\* The attribution call's parse of one field holding valor_str, added to a
\* total of zero.
LeituraDoCampo(valor_str) ==
    SomaCampos([valorLiquidado |-> valor_str], Campos(2), DecimalZero)

InicioLeitura(texto) ==
    /\ textoValor = texto
    /\ lidoProcessar = None
    /\ lidoLimpar = None
    /\ lidoCampo = None
    /\ pcLeitura = "processar_valor"

\* processar_valor(valor_str)
ProcessarValorChamada ==
    /\ pcLeitura = "processar_valor"
    /\ lidoProcessar' = Valor(ProcessarValor(textoValor))
    /\ pcLeitura' = "limpar_valor"
    /\ UNCHANGED <<textoValor, lidoLimpar, lidoCampo>>
    /\ UNCHANGED foraLeitura

\* limpar_valor(valor)
LimparValorChamada ==
    /\ pcLeitura = "limpar_valor"
    /\ lidoLimpar' = LimparValor(textoValor)
    /\ pcLeitura' = "campo"
    /\ UNCHANGED <<textoValor, lidoProcessar, lidoCampo>>
    /\ UNCHANGED foraLeitura

\* The loop body of consultar_empenho_impactado on one field.
LeituraDoCampoChamada ==
    /\ pcLeitura = "campo"
    /\ lidoCampo' = LeituraDoCampo(textoValor)
    /\ pcLeitura' = "done"
    /\ UNCHANGED <<textoValor, lidoProcessar, lidoLimpar>>
    /\ UNCHANGED foraLeitura

\* ------------------------------------------- processar_dados_financeiros

\* Rows of the file read.
MaxLinhas == 3

\* "-5,00", "7,00", "x": the texts of the `valor` column.
TxtMenosCinco == <<"-", "5", ",", "0", "0">>
TxtSete == <<"7", ",", "0", "0">>
TextosDaColunaValor == {TxtMenosCinco, TxtSete, TxtInvalido}

\* "pago", "ESTORNO 1": the texts of the `observacao` column.
TxtPago == <<"p", "a", "g", "o">>
TxtEstornoMaiusculo == <<"E", "S", "T", "O", "R", "N", "O", " ", "1">>
TextosDeObservacao == {TxtPago, TxtEstornoMaiusculo}

DocumentosDaColuna == {"E1", "E2"}

\* The columns a file may have besides `valor` and `data`.
ColunasPossiveis == {{"documento", "observacao"}, {"documento"}, {"observacao"}}

\* One row of a file with the optional columns cs; `indice` is the row's
\* label in the DataFrame index.
LinhasDe(cs) ==
    { [c \in cs \cup {"valor", "data"} |->
          CASE c = "valor" -> v
            [] c = "data" -> 1
            [] c = "documento" -> doc
            [] c = "observacao" -> obs] :
          v \in TextosDaColunaValor, doc \in DocumentosDaColuna,
          obs \in TextosDeObservacao }

\* The row l under the index label i.
ComIndice(l, i) ==
    [c \in DOMAIN l \cup {"indice"} |-> IF c = "indice" THEN i ELSE l[c]]

\* The files of n rows with the optional columns cs, labelled 1, 2, ... by
\* read_csv.
ArquivosLidos(cs, n) ==
    { [i \in 1..n |-> ComIndice(t[i], i)] : t \in [1..n -> LinhasDe(cs)] }

\* df.columns
Colunas(tabela) == IF tabela = <<>> THEN {} ELSE DOMAIN tabela[1]

Maiusculas == <<"A", "B", "C", "D", "E", "F", "G", "H", "I", "J", "K", "L", "M", "N", "O", "P", "Q", "R", "S", "T", "U", "V", "W", "X", "Y", "Z">>
Minusculas == <<"a", "b", "c", "d", "e", "f", "g", "h", "i", "j", "k", "l", "m", "n", "o", "p", "q", "r", "s", "t", "u", "v", "w", "x", "y", "z">>

\* str.lower() of one character.
Minuscula(c) ==
    IF \E k \in 1..Len(Maiusculas) : Maiusculas[k] = c
    THEN Minusculas[CHOOSE k \in 1..Len(Maiusculas) : Maiusculas[k] = c]
    ELSE c

\* str.lower()
Lower(s) == [i \in 1..Len(s) |-> Minuscula(s[i])]

\* `palavra in texto`
Contem(texto, palavra) ==
    \E i \in 1..(Len(texto) - Len(palavra) + 1) :
        SubSeq(texto, i, i + Len(palavra) - 1) = palavra

\* palavras_chave
PalavrasChave ==
    { <<"a", "n", "u", "l", "a", "c", "a", "o">>,
      <<"r", "e", "f", "o", "r", "c", "o">>,
      <<"c", "a", "n", "c", "e", "l", "a", "m", "e", "n", "t", "o">>,
      <<"e", "s", "t", "o", "r", "n", "o">> }

\* A plausible slip: the test of the value's sign left out.
EhAjusteNegativoSoPorObservacao(observacao, valor) ==
    \E palavra \in PalavrasChave : Contem(Lower(observacao), palavra)

\* eh_ajuste_negativo on a str observation and a float value (np.nan
\* included, which is not below zero).
EhAjusteNegativo(observacao, valor) ==
    \/ \E palavra \in PalavrasChave : Contem(Lower(observacao), palavra)
    \/ valor.tipo = "valor" /\ valor.valor.coef < 0

\* subset_duplicatas
SubsetDuplicatas(tabela) ==
    IF "documento" \in Colunas(tabela) THEN <<"documento", "valor">>
    ELSE <<"valor", "data">>

\* The values of row l in the columns of subset.
Chave(l, subset) == [k \in 1..Len(subset) |-> l[subset[k]]]

\* df.drop_duplicates(subset=subset, keep='first'): a row stays unless an
\* earlier row has its key; np.nan equals np.nan there.
DropDuplicates(tabela, subset) ==
    LET fica(i) == \A j \in 1..(i - 1) : Chave(tabela[j], subset) # Chave(tabela[i], subset)
        RECURSIVE ate(_)
        ate(i) == IF i = 0 THEN <<>>
                  ELSE IF fica(i) THEN Append(ate(i - 1), tabela[i])
                  ELSE ate(i - 1)
    IN  ate(Len(tabela))

\* df[df.duplicated(subset=subset, keep=False)]: every row whose key occurs
\* more than once.
DuplicadosMarcados(tabela, subset) ==
    SelectSeq(tabela, LAMBDA l :
        \E j \in 1..Len(tabela) :
            tabela[j].indice # l.indice /\ Chave(tabela[j], subset) = Chave(l, subset))

\* The row l with column c set to v.
ComColuna(l, c, v) == [k \in DOMAIN l \cup {c} |-> IF k = c THEN v ELSE l[k]]

\* limpar_valor of each text the `valor` column may hold.
ValoresLimpos == [t \in TextosDaColunaValor |-> LimparValor(t)]

\* The file as read and cleaned of stray whitespace (steps 1 and 2).
InicioFinanceiro(arquivo) ==
    /\ df = arquivo
    /\ dfLido = <<>>
    /\ registros_normais = <<>>
    /\ ajustes_negativos = <<>>
    /\ pcFinanceiro = "valor"

\* Step 3: df['valor'] = df['valor'].apply(limpar_valor)
ConverterValor ==
    /\ pcFinanceiro = "valor"
    /\ df' = [i \in 1..Len(df) |-> ComColuna(df[i], "valor", ValoresLimpos[df[i].valor])]
    /\ pcFinanceiro' = "duplicatas"
    /\ UNCHANGED <<dfLido, registros_normais, ajustes_negativos>>
    /\ UNCHANGED foraFinanceiro

\* Step 5: the duplicates are marked and, if there are any, dropped.
RemoverDuplicatas ==
    /\ pcFinanceiro = "duplicatas"
    /\ dfLido' = df
    /\ df' = IF DuplicadosMarcados(df, SubsetDuplicatas(df)) # <<>>
             THEN DropDuplicates(df, SubsetDuplicatas(df))
             ELSE df
    /\ pcFinanceiro' = "ajustes"
    /\ UNCHANGED <<registros_normais, ajustes_negativos>>
    /\ UNCHANGED foraFinanceiro

\* Step 6: the column eh_ajuste_negativo, from the observation and the
\* value, or False throughout when the file has no `observacao` column.
DetectarAjustes ==
    /\ pcFinanceiro = "ajustes"
    /\ df' = [i \in 1..Len(df) |->
                 ComColuna(df[i], "eh_ajuste_negativo",
                     IF "observacao" \in Colunas(df)
                     THEN EhAjusteNegativo(Lower(df[i].observacao), df[i].valor)
                     ELSE FALSE)]
    /\ pcFinanceiro' = "separar"
    /\ UNCHANGED <<dfLido, registros_normais, ajustes_negativos>>
    /\ UNCHANGED foraFinanceiro

\* Step 7: the two selections.
SepararRegistros ==
    /\ pcFinanceiro = "separar"
    /\ registros_normais' = SelectSeq(df, LAMBDA l : l.eh_ajuste_negativo = FALSE)
    /\ ajustes_negativos' = SelectSeq(df, LAMBDA l : l.eh_ajuste_negativo = TRUE)
    /\ pcFinanceiro' = "done"
    /\ UNCHANGED <<df, dfLido>>
    /\ UNCHANGED foraFinanceiro

\* ------------------------------------------------------- specifications

Next ==
    \/ ConsultarDadosPorFase
    \/ ConsultarDocumentosRelacionados
    \/ ConsultarPagamentosRelacionados
    \/ ColetarDadosPorFase
    \/ ColetarDadosPorFasePortal

\* One call of one of the paginated fetches.
InitPaginacao ==
    /\ servidor = ServidorLivre
    /\ \E f \in Funcoes : InicioPaginacao(f)
    /\ ItensParados
    /\ ImpactadoParado
    /\ SaldosParado
    /\ AggregateParado
    /\ FormatarParado
    /\ LeituraParada
    /\ FinanceiroParado

Spec == InitPaginacao /\ [][Next]_vars

\* One call of coletar_itens_empenho_completos.
InitItens ==
    /\ PaginacaoParada
    /\ InicioItens
    /\ ImpactadoParado
    /\ SaldosParado
    /\ AggregateParado
    /\ FormatarParado
    /\ LeituraParada
    /\ FinanceiroParado

NextItens == ColetarItensEmpenhoCompletos

SpecItens == InitItens /\ [][NextItens]_vars

\* One call of consultar_empenho_impactado.
InitImpactado ==
    /\ PaginacaoParada
    /\ ItensParados
    /\ SaldosParado
    /\ AggregateParado
    /\ FormatarParado
    /\ LeituraParada
    /\ FinanceiroParado
    /\ \E f \in Fases, a \in Alvos : InicioImpactado(f, a)

NextImpactado ==
    \/ ImpactadoRequisicao
    \/ ImpactadoItem
    \/ ImpactadoRetorno

SpecImpactado == InitImpactado /\ [][NextImpactado]_vars

\* One call of one of the paginated fetches against an endpoint that repeats
\* its last page.
InitRepete ==
    /\ \E sv \in ServidoresQueRepetem : servidor = sv
    /\ \E f \in Funcoes : InicioPaginacao(f)
    /\ ItensParados
    /\ ImpactadoParado
    /\ SaldosParado
    /\ AggregateParado
    /\ FormatarParado
    /\ LeituraParada
    /\ FinanceiroParado

SpecRepete == InitRepete /\ [][Next]_vars

\* One call of calcular_saldos.
InitSaldos ==
    /\ ItensParados
    /\ ImpactadoParado
    /\ AggregateParado
    /\ FormatarParado
    /\ LeituraParada
    /\ FinanceiroParado
    /\ servidor = ServidorLivre
    /\ \E valores \in Planilhas : InicioSaldos(valores)

NextSaldos ==
    \/ ConsultarPagamentosRelacionados
    \/ ConsolidarEmpenho

SpecSaldos == InitSaldos /\ [][NextSaldos]_vars

\* One call of aggregate on the events of a commitment.
InitAggregate ==
    /\ PaginacaoParada
    /\ ItensParados
    /\ ImpactadoParado
    /\ SaldosParado
    /\ FormatarParado
    /\ LeituraParada
    /\ FinanceiroParado
    /\ \E evs \in ListasAte(EventosPossiveis, MaxEventos) : InicioAggregate(evs)

NextAggregate ==
    \/ AggregateEvento
    \/ AggregateRetorno

SpecAggregate == InitAggregate /\ [][NextAggregate]_vars

\* One amount formatted by formatar_valor and read back.
InitFormatar ==
    /\ PaginacaoParada
    /\ ItensParados
    /\ ImpactadoParado
    /\ SaldosParado
    /\ AggregateParado
    /\ LeituraParada
    /\ FinanceiroParado
    /\ \E v \in ValoresAFormatar : InicioFormatar(v)

NextFormatar ==
    \/ FormatarValorChamada
    \/ LerTextoFormatado

SpecFormatar == InitFormatar /\ [][NextFormatar]_vars

\* ================================================================== claims
\* One text handed to each of the three parsing sites.
InitLeitura ==
    /\ PaginacaoParada
    /\ ItensParados
    /\ ImpactadoParado
    /\ SaldosParado
    /\ AggregateParado
    /\ FormatarParado
    /\ FinanceiroParado
    /\ \E texto \in TextosDeEntrada : InicioLeitura(texto)

NextLeitura ==
    \/ ProcessarValorChamada
    \/ LimparValorChamada
    \/ LeituraDoCampoChamada

SpecLeitura == InitLeitura /\ [][NextLeitura]_vars

\* One call of processar_dados_financeiros.
InitFinanceiro ==
    /\ PaginacaoParada
    /\ ItensParados
    /\ ImpactadoParado
    /\ SaldosParado
    /\ AggregateParado
    /\ FormatarParado
    /\ LeituraParada
    /\ \E cs \in ColunasPossiveis, n \in 1..MaxLinhas :
           \E arquivo \in ArquivosLidos(cs, n) : InicioFinanceiro(arquivo)

NextFinanceiro ==
    \/ ConverterValor
    \/ RemoverDuplicatas
    \/ DetectarAjustes
    \/ SepararRegistros

SpecFinanceiro == InitFinanceiro /\ [][NextFinanceiro]_vars

\* ----------------------------------------------------- paginated fetches

RECURSIVE RegistrosAte(_, _)
\* The records of the first k responses, in request order.
RegistrosAte(rs, k) ==
    IF k = 0 THEN <<>>
    ELSE RegistrosAte(rs, k - 1) \o (IF EhErro(rs[k]) THEN <<>> ELSE Dados(rs[k]))

NumPedidos == Len(recebidos)

\* The call has returned because request k > 1 failed.
FalhouAposPrimeira ==
    /\ pc = "done"
    /\ NumPedidos > 1
    /\ EhErro(recebidos[NumPedidos])

FetchesDeListagem == {"consultar_dados_por_fase", "coletar_dados_por_fase"}

LoteCurtoEm(i) == ~EhErro(recebidos[i]) /\ recebidos[i].n < TamanhoPagina

\* The sizes of the batches received, when no request failed.
TamanhosRecebidos == [i \in 1..NumPedidos |-> recebidos[i].n]

SemFalha == \A i \in 1..NumPedidos : ~EhErro(recebidos[i])

FetchesComTesteDeTamanho ==
    { "consultar_dados_por_fase",
      "consultar_documentos_relacionados",
      "consultar_pagamentos_relacionados" }

FetchesSemTesteDeTamanho ==
    {"coletar_dados_por_fase", "data_portal.coletar_dados_por_fase"}

RepeteAnterior(i) ==
    /\ i > 1
    /\ ~EhErro(recebidos[i])
    /\ ~EhErro(recebidos[i - 1])
    /\ recebidos[i].n > 0
    /\ Dados(recebidos[i]) = Dados(recebidos[i - 1])

FetchesDeRelacionados ==
    {"consultar_documentos_relacionados", "consultar_pagamentos_relacionados"}

\* C8: in the related-document fetches, a batch identical to the immediately
\* preceding batch stops the fetch and is not added to the result (four full
\* batches whose last two are identical: 4 requests, the records of 3 batches).
C8_LoteRepetidoTermina ==
    func \in FetchesDeRelacionados =>
        \A i \in 1..NumPedidos :
            RepeteAnterior(i) =>
                /\ i = NumPedidos
                /\ pc = "done"
                /\ retorno = Lista(RegistrosAte(recebidos, i - 1))

\* --------------------------------------------------- ledger sequence scan

ConjuntoConsultado == {consultados[i] : i \in 1..Len(consultados)}

RECURSIVE VaziosNoFim(_)
\* The number of consecutive queried sequenciais, counted back from the last
\* one queried, for which the server sent no event.
VaziosNoFim(n) ==
    IF n = 0 \/ consultados[n] \in comEventos THEN 0 ELSE 1 + VaziosNoFim(n - 1)

\* Sequence 1 returned events and sequences 2, 3 and 4 returned none.
AcertoEmUmEVaziosAteQuatro ==
    /\ {1, 2, 3, 4} \subseteq ConjuntoConsultado
    /\ comEventos \cap {1, 2, 3, 4} = {1}

\* C4 as stated: with a hit at sequence 1 and misses at 2, 3 and 4, the scan
\* still queries sequence 5 before it ends.
C4_AlcancaSequenciaCinco ==
    (AcertoEmUmEVaziosAteQuatro /\ pcItens = "done") => 5 \in ConjuntoConsultado

\* C4 amended: with a hit at sequence 1 and misses at 2, 3 and 4 the scan stops
\* at sequence 4, the third consecutive miss: sequence 5 is never queried and
\* the result holds sequence 1 only.  A later hit is reached when at most two
\* misses precede it: with events at sequences 1 and 4 only, the scan queries
\* sequence 4, records its events, and stops after the misses at 5, 6 and 7
\* (sequence 8 is never queried).
C4_ParaNoTerceiroVazio ==
    /\ AcertoEmUmEVaziosAteQuatro =>
        /\ pcItens = "done"
        /\ consultados = <<1, 2, 3, 4>>
        /\ DOMAIN resultados_itens = {1}
    /\ (pcItens = "done" /\ comEventos = {1, 4}) =>
        /\ consultados = <<1, 2, 3, 4, 5, 6, 7>>
        /\ DOMAIN resultados_itens = {1, 4}
        /\ resultados_itens[4] = HistoricoDe(4)

\* C4 witness: the scan ended after a hit at 1 and misses at 2, 3 and 4.
C4_Witness ==
    /\ pcItens = "done"
    /\ AcertoEmUmEVaziosAteQuatro
    /\ falhas_consecutivas = LimiteFalhas

\* C5: for any pattern of hits and misses the scan queries sequences 1, 2, 3,
\* ... in order, never one above the ceiling 20, stops immediately after the
\* third consecutive miss, resets the miss counter on every hit (the counter is
\* the number of misses since the last hit, in 0..3), and the result holds
\* exactly the queried sequences that returned at least one event.
C5_VarreduraEmOrdem ==
    /\ consultados = [i \in 1..Len(consultados) |-> i]
    /\ Len(consultados) <= MaxSequenciais
    /\ falhas_consecutivas \in 0..LimiteFalhas
    /\ falhas_consecutivas = VaziosNoFim(Len(consultados))
    /\ falhas_consecutivas = LimiteFalhas => pcItens = "done"
    /\ pcItens = "done" =>
        \/ falhas_consecutivas = LimiteFalhas
        \/ Len(consultados) = MaxSequenciais
    /\ DOMAIN resultados_itens = comEventos
    /\ \A q \in comEventos : resultados_itens[q] = HistoricoDe(q)

\* C5 witness: a scan that reached the ceiling, with a hit after two misses.
C5_Witness ==
    /\ pcItens = "done"
    /\ Len(consultados) = MaxSequenciais
    /\ falhas_consecutivas < LimiteFalhas
    /\ 3 \in comEventos
    /\ comEventos \cap {1, 2} = {}

\* C6: what a query function returns on an HTTP or network failure is never
\* equal to what it returns for an empty result; here, a failed ledger-history
\* request never hands the scan the value of an empty history.
C6_FalhaDistintaDeVazio ==
    ultimaResposta.tipo = "erro"
        => retornoHistorico # ConsultarHistoricoEmpenho([tipo |-> "ok", dados |-> <<>>])

\* -------------------------------------------------------- attribution call

\* The request failed in transport or its body could not be decoded.
FalhaDeTransporteOuJson == respostaImpactado.tipo \in {"http", "rede", "json"}

\* C9: whenever the transport request or the decoding of the response fails
\* inside the attribution call, the call ends in an exception propagated to the
\* caller and returns no numeric value (in particular not zero).
C9_FalhaNuncaViraValor ==
    FalhaDeTransporteOuJson =>
        /\ pcImpactado = "done"
        /\ retornoImpactado.tipo = "excecao"
        /\ retornoImpactado # Valor(DecimalZero)

\* C9 witness: a call whose response body was not JSON and that raised.
C9_Witness ==
    /\ respostaImpactado.tipo = "json"
    /\ pcImpactado = "done"
    /\ retornoImpactado.tipo = "excecao"

\* The positions of the records of the response that name empenho_alvo.
PosicoesDoAlvo ==
    { i \in 1..Len(data) :
        "empenho" \in DOMAIN data[i] /\ data[i].empenho = empenho_alvo }

PrimeiraPosicaoDoAlvo ==
    CHOOSE i \in PosicoesDoAlvo : \A j \in PosicoesDoAlvo : i <= j

\* C10: attribution uses only the first impact record whose `empenho` equals
\* the target commitment: the value returned is that of this record alone,
\* whatever the later records naming the same commitment and the records
\* naming other commitments hold, and when no record matches the result is
\* zero and no error is raised.
C10_SoOPrimeiroRegistroDoAlvo ==
    (pcImpactado = "done" /\ respostaImpactado.tipo = "ok") =>
        IF PosicoesDoAlvo = {}
        THEN /\ retornoImpactado = Valor(DecimalZero)
             /\ ~encontrado
        ELSE /\ encontrado
             /\ retornoImpactado =
                    SomaCampos(data[PrimeiraPosicaoDoAlvo], Campos(fase), DecimalZero)

\* C10 witness: a response that names another commitment first and then the
\* target twice with different amounts; the call returned the first amount.
C10_Witness ==
    /\ pcImpactado = "done"
    /\ fase = 3
    /\ empenho_alvo = "X"
    /\ Len(data) = 3
    /\ PosicoesDoAlvo = {2, 3}
    /\ "empenho" \in DOMAIN data[1]
    /\ data[1].empenho = "Z"
    /\ data[2] # data[3]
    /\ retornoImpactado.tipo = "valor"
    /\ MesmoValor(retornoImpactado.valor, DecimalDe(<<"1", "5", "0", "0">>))

\* --------------------------------------------------- batch balance driver

\* The records emitted for row i of the spreadsheet.
RegistrosDaLinha(i) ==
    { k \in 1..Len(resultados_consolidados) :
        resultados_consolidados[k].codigo_empenho = df_empenhos[i].documento }

\* C2: no balance record is emitted with a total paid that was defaulted
\* because a remote query failed: for a commitment whose related-document
\* query failed, the output holds no record showing total paid = 0 and
\* balance = commitment value.
C2_FalhaNaoViraTotalZero ==
    \A i \in falharam :
        \A k \in RegistrosDaLinha(i) :
            ~ ( /\ resultados_consolidados[k].total_pago = DecimalZero
                /\ resultados_consolidados[k].saldo
                       = resultados_consolidados[k].valor_empenho )

\* C3: batch isolation: once the batch has ended every row was processed, the
\* result set holds one record for every commitment whose queries succeeded
\* and none for a commitment whose query failed.
C3_IsolamentoDoLote ==
    pcSaldos = "fim" =>
        /\ linha = Len(df_empenhos) + 1
        /\ \A i \in 1..Len(df_empenhos) :
            IF i \in falharam
            THEN RegistrosDaLinha(i) = {}
            ELSE Cardinality(RegistrosDaLinha(i)) = 1

\* ------------------------------------------- attribution: fields by phase

\* The amount a field of an impact record stands for: zero when the field is
\* absent, empty or "0,00", otherwise the number its text writes.
Quantia(item, campo) ==
    IF campo \notin DOMAIN item \/ item[campo] = <<>> \/ item[campo] = TxtZero
    THEN DecimalZero
    ELSE DecimalDe(FormatoBrParaPonto(item[campo]))

\* The field of the record is absent, empty, or a well-formed amount.
Legivel(item, campo) ==
    \/ campo \notin DOMAIN item
    \/ item[campo] = <<>>
    \/ DecimalValido(FormatoBrParaPonto(item[campo]))

\* What the phase is said to sum for a record.
QuantiaDaFase(item, f) ==
    CASE f = 3 -> SomaDecimal(Quantia(item, "valorPago"), Quantia(item, "valorRestoPago"))
      [] f = 2 -> Quantia(item, "valorLiquidado")
      [] OTHER -> DecimalZero

\* The fields the phase is said to read are all legible in the record.
LegivelNaFase(item, f) ==
    CASE f = 3 -> Legivel(item, "valorPago") /\ Legivel(item, "valorRestoPago")
      [] f = 2 -> Legivel(item, "valorLiquidado")
      [] OTHER -> TRUE

\* C11: for the matched record, phase 3 returns valorPago + valorRestoPago,
\* phase 2 returns valorLiquidado and any other phase returns zero; a field
\* that is absent or holds "0,00" contributes zero.
C11_CamposPorFase ==
    ( /\ pcImpactado = "done"
      /\ respostaImpactado.tipo = "ok"
      /\ PosicoesDoAlvo # {}
      /\ LegivelNaFase(data[PrimeiraPosicaoDoAlvo], fase) ) =>
        /\ retornoImpactado.tipo = "valor"
        /\ MesmoValor(retornoImpactado.valor,
                      QuantiaDaFase(data[PrimeiraPosicaoDoAlvo], fase))

\* C11 witness: commitment "X" with valorPago "1.500,00" and valorRestoPago
\* "0,00" asked at phase 3; the call returned 1500.
C11_Witness ==
    /\ pcImpactado = "done"
    /\ fase = 3
    /\ empenho_alvo = "X"
    /\ PosicoesDoAlvo # {}
    /\ data[PrimeiraPosicaoDoAlvo].valorPago = TxtMilQuinhentos
    /\ data[PrimeiraPosicaoDoAlvo].valorRestoPago = TxtZero
    /\ retornoImpactado.tipo = "valor"
    /\ MesmoValor(retornoImpactado.valor, [coef |-> 150000, casas |-> 2])

\* ------------------------------------------- balance: totals by phase

RECURSIVE SomaDaFase(_, _, _, _)
\* The sum, over the documents a..b of docs that are of phase f, of the amount
\* each attributes to the commitment (here the whole of its `valor`).
SomaDaFase(docs, f, a, b) ==
    IF a > b THEN DecimalZero
    ELSE IF a = b
    THEN IF FaseDoDocumento(docs[a]) = f THEN ValorPagoDe(docs[a]) ELSE DecimalZero
    ELSE LET m == (a + b) \div 2 IN
         SomaFloat(SomaDaFase(docs, f, a, m), SomaDaFase(docs, f, m + 1, b))

\* The record of the last row, once the batch has ended.
UltimoRegistro == resultados_consolidados[Len(resultados_consolidados)]

\* C12: only related documents of phase 3 contribute to the total paid, those
\* of phase 2 and of any other phase do not, and the balance is the value of
\* the commitment minus the total paid.
C12_TotalPagoSoDaFaseTres ==
    (pcSaldos = "fim" /\ retorno.tipo = "lista") =>
        /\ MesmoValor(UltimoRegistro.total_pago,
                      SomaDaFase(retorno.valor, 3, 1, Len(retorno.valor)))
        /\ MesmoValor(UltimoRegistro.saldo,
                      SubtraiFloat(UltimoRegistro.valor_empenho,
                                   SomaDaFase(retorno.valor, 3, 1, Len(retorno.valor))))

\* ------------------------------------------- ledger scan: pages of a sequence

RECURSIVE HistoricoAtePagina(_, _)
\* The events of sequence s on pages 1..p, in page order.
HistoricoAtePagina(s, p) ==
    IF p = 0 THEN <<>>
    ELSE HistoricoAtePagina(s, p - 1) \o HistoricoNaPagina(s, p)

\* C13: for each sequence the history is retrieved through full pagination:
\* every event of the sequence, on every page the server holds, is in the
\* events collected for it.
C13_HistoricoDeTodasAsPaginas ==
    \A q \in DOMAIN resultados_itens :
        resultados_itens[q] = HistoricoAtePagina(q, PaginasDoHistorico(q))

\* ------------------------------------------------------ ledger aggregation

\* The last event folded.
UltimoEvento == eventos[posEvento - 1]

\* C14: after folding any sequence of ledger events, currentValue equals
\* initialValue + reinforcedValue - cancelledValue exactly; an Inclusion or a
\* Reinforcement only increases the running total, a Cancellation only
\* decreases it, and an unrecognized type changes none of the totals and does
\* not stop the fold.
C14_InvarianteDaAgregacao ==
    /\ MesmoValor(currentValue,
                  SomaDecimal(SomaDecimal(initialValue, reinforcedValue),
                              Negativo(cancelledValue)))
    /\ posEvento > 1 =>
        CASE UltimoEvento.operacao \in {"INCLUSAO", "REFORCO"} ->
                 /\ MenorOuIgual(antesDoEvento.currentValue, currentValue)
                 /\ MesmoValor(currentValue,
                               SomaDecimal(antesDoEvento.currentValue, UltimoEvento.valor))
          [] UltimoEvento.operacao = "ANULACAO" ->
                 /\ MenorOuIgual(currentValue, antesDoEvento.currentValue)
                 /\ MesmoValor(antesDoEvento.currentValue,
                               SomaDecimal(currentValue, UltimoEvento.valor))
          [] OTHER -> Totais = antesDoEvento
    /\ pcAggregate = "done" => posEvento = Len(eventos) + 1

\* C14 witness: a history with an Inclusion, an unrecognized type and a
\* Cancellation, folded to the end.
C14_Witness ==
    /\ pcAggregate = "done"
    /\ Len(eventos) = 3
    /\ eventos[1].operacao = "INCLUSAO"
    /\ eventos[2].operacao = "ESTORNO"
    /\ eventos[3].operacao = "ANULACAO"
    /\ eventos[1].valor # eventos[3].valor
    /\ cancelledValue # DecimalZero

\* ------------------------------------------- attribution: ill-formed amounts

\* What the fields of the phase add up to when an ill-formed one counts as zero.
QuantiaRecuperada(item, campo) ==
    IF Legivel(item, campo) THEN Quantia(item, campo) ELSE DecimalZero

QuantiaRecuperadaDaFase(item, f) ==
    CASE f = 3 -> SomaDecimal(QuantiaRecuperada(item, "valorPago"),
                              QuantiaRecuperada(item, "valorRestoPago"))
      [] f = 2 -> QuantiaRecuperada(item, "valorLiquidado")
      [] OTHER -> DecimalZero

\* C15: an unparseable monetary string is recovered as zero: in the attribution
\* it adds nothing to the running total and the call completes with a value
\* instead of failing.
C15_InvalidoContaComoZero ==
    ( /\ pcImpactado = "done"
      /\ respostaImpactado.tipo = "ok"
      /\ PosicoesDoAlvo # {}
      /\ ~LegivelNaFase(data[PrimeiraPosicaoDoAlvo], fase) ) =>
        /\ retornoImpactado.tipo = "valor"
        /\ MesmoValor(retornoImpactado.valor,
                      QuantiaRecuperadaDaFase(data[PrimeiraPosicaoDoAlvo], fase))

\* ------------------------------------------------------------ round trip

\* The argument is a Decimal amount with two places, not negative.
QuantiaDeDuasCasas ==
    /\ valorFormatar.tipo = "Decimal"
    /\ valorFormatar.valor.casas = 2
    /\ valorFormatar.valor.coef >= 0

\* a = b as numbers; amounts written with the same places compare by coefficient.
MesmaQuantia(a, b) == IF a.casas = b.casas THEN a.coef = b.coef ELSE MesmoValor(a, b)

\* C16: for every non-negative amount x with two decimal places, reading the
\* formatted text of x (thousands grouped with '.', decimal ',') gives x again.
C16_IdaEVolta ==
    (pcFormatar = "done" /\ QuantiaDeDuasCasas) =>
        /\ textoFormatado.tipo = "str"
        /\ valorRelido.tipo = "valor"
        /\ MesmaQuantia(valorRelido.valor, valorFormatar.valor)

\* C16 witness: 1000000.05 written as "1.000.000,05" and read back.
C16_Witness ==
    /\ pcFormatar = "done"
    /\ valorFormatar = DecimalPy([coef |-> 100000005, casas |-> 2])
    /\ textoFormatado.valor =
           <<"1", ".", "0", "0", "0", ".", "0", "0", "0", ",", "0", "5">>
    /\ valorRelido = Valor([coef |-> 100000005, casas |-> 2])

\* ------------------------------------------------ balance: over-execution

\* The record says more was paid than the commitment is worth.
PagoAcimaDoValor(r) == ~MenorOuIgual(r.total_pago, r.valor_empenho)

\* C17: a commitment whose total paid exceeds its value still yields exactly
\* one balance record, with a negative balance equal to value minus total
\* paid; over-execution neither stops the batch nor drops the record.
C17_SaldoNegativoReportado ==
    /\ Len(resultados_consolidados) = linha - 1
    /\ \A i \in 1..(linha - 1) :
        /\ Cardinality(RegistrosDaLinha(i)) = 1
        /\ \A k \in RegistrosDaLinha(i) :
            LET r == resultados_consolidados[k] IN
            PagoAcimaDoValor(r) =>
                /\ r.saldo.coef < 0
                /\ MesmoValor(SomaDecimal(r.saldo, r.total_pago), r.valor_empenho)

\* C17 witness: a batch that ended with a commitment of 100.00 against which
\* more than 100.00 was paid, reported with a negative balance, followed by
\* another commitment.
C17_Witness ==
    /\ pcSaldos = "fim"
    /\ Len(resultados_consolidados) >= 2
    /\ PagoAcimaDoValor(resultados_consolidados[1])
    /\ MesmoValor(resultados_consolidados[1].valor_empenho, [coef |-> 100, casas |-> 0])
    /\ resultados_consolidados[1].saldo.coef < 0

\* ------------------------------------------------ paginated fetches: empty body

C19_ParaSobServidorQueRepete ==
    (servidor.modo = "repete" /\ pc = "loop") => NumPedidos <= servidor.paginas

\* ------------------------------------- related documents: repeated batches

\* Response i carries a batch the fetch is to keep: it is not empty and is not
\* the batch of the response right before it.
LoteIncluido(i) ==
    /\ ~EhErro(recebidos[i])
    /\ Dados(recebidos[i]) # <<>>
    /\ i > 1 => Dados(recebidos[i]) # Dados(recebidos[i - 1])

LotesIncluidos == { i \in 1..NumPedidos : LoteIncluido(i) }

RECURSIVE LotesEmOrdem(_)
\* The batches kept among responses 1..k, concatenated in request order.
LotesEmOrdem(k) ==
    IF k = 0 THEN <<>>
    ELSE LotesEmOrdem(k - 1) \o (IF LoteIncluido(k) THEN Dados(recebidos[k]) ELSE <<>>)

\* A related-document fetch none of whose requests failed.
RelacionadosSemFalha == func = "consultar_documentos_relacionados" /\ SemFalha

RECURSIVE NaOrdemDaSpec(_, _, _, _)
\* The related-document fetch with its stop tests in the order empty, short
\* batch, duplicate of the previous batch, run over the responses rs from
\* response k on: the requests it issues, whether it has returned, and the
\* records it returns (or has collected so far).
NaOrdemDaSpec(rs, k, acumulado, anterior) ==
    IF k > Len(rs)
    THEN [pedidos |-> Len(rs), fim |-> FALSE, registros |-> acumulado]
    ELSE IF EhErro(rs[k])
    THEN [pedidos |-> k, fim |-> TRUE, registros |-> <<>>]
    ELSE LET lote == Dados(rs[k]) IN
         IF lote = <<>>
         THEN [pedidos |-> k, fim |-> TRUE, registros |-> acumulado]
         ELSE IF Len(lote) < TamanhoPagina
         THEN [pedidos |-> k, fim |-> TRUE, registros |-> acumulado \o lote]
         ELSE IF anterior # <<>> /\ lote = anterior[1]
         THEN [pedidos |-> k, fim |-> TRUE, registros |-> acumulado]
         ELSE NaOrdemDaSpec(rs, k + 1, acumulado \o lote, <<lote>>)

\* C21: the order of the stop tests is immaterial in the related-document
\* fetch: with the tests in the code's order (empty, duplicate of the
\* previous batch, short batch) and in the order empty, short batch,
\* duplicate, the same requests are issued and the same records returned,
\* for every sequence of server responses.
C21_OrdemDosTestesIndiferente ==
    func = "consultar_documentos_relacionados" =>
        LET outra == NaOrdemDaSpec(recebidos, 1, <<>>, <<>>) IN
        /\ outra.pedidos = NumPedidos
        /\ outra.fim <=> pc = "done"
        /\ pc = "done" => retorno = Lista(outra.registros)
        /\ pc = "loop" => resultados = outra.registros

\* C21 witness: a fetch that stopped on a full batch equal to the one before
\* it, after two different full batches, and returned those two.
C21_Witness ==
    /\ func = "consultar_documentos_relacionados"
    /\ pc = "done"
    /\ NumPedidos = 3
    /\ recebidos[1] \in RespostasCheias
    /\ recebidos[2] \in RespostasCheias
    /\ recebidos[1] # recebidos[2]
    /\ recebidos[3] = recebidos[2]
    /\ Len(retorno.valor) = 2 * TamanhoPagina

\* ------------------------------------------- monetary parsing: the three sites

\* What every site made of the text, once each has read it as a number.
TodosLeram ==
    /\ pcLeitura = "done"
    /\ lidoProcessar.tipo = "valor"
    /\ lidoLimpar.tipo = "valor"
    /\ lidoCampo.tipo = "valor"

\* C22: for every text of digits, '.' and ',', processar_valor, limpar_valor
\* and the attribution call's inline parse return the same number. Stated
\* where no site refuses the text: a text one of them refuses is recovered
\* as 0.0, as np.nan and as an exception respectively.
C22_SitiosConcordam ==
    (TodosLeram /\ SoDigitosESeparadores(textoValor)) =>
        /\ MesmoValor(lidoProcessar.valor, lidoLimpar.valor)
        /\ MesmoValor(lidoLimpar.valor, lidoCampo.valor)

\* ------------------------------------------------ paginated fetches: numbering

\* Whether batch k of the responses rs makes the loop of fetch f stop after
\* including or discarding it: a short page where f tests the size, a batch
\* equal to its predecessor where f compares them.
BatchEncerra(f, rs, k) ==
    LET dados == Dados(rs[k]) IN
    \/ /\ f \in {"consultar_dados_por_fase", "consultar_documentos_relacionados",
                 "consultar_pagamentos_relacionados"}
       /\ Len(dados) < TamanhoPagina
    \/ /\ f = "consultar_documentos_relacionados"
       /\ k > 1
       /\ dados = Dados(rs[k - 1])

\* C23: within one fetch the requests carry the pages 1, 2, 3, ... with no
\* gap and no repeat; every request but the last returned successfully with
\* a non-empty batch that did not stop the loop; a failure is the last
\* request, and the fetch has returned.
C23_NumeracaoDasPaginas ==
    func # "nenhuma" =>
        /\ Len(recebidos) = NumPedidos
        /\ \A k \in 1..NumPedidos : pedidos[k] = k
        /\ \A k \in 1..(NumPedidos - 1) :
               /\ ~EhErro(recebidos[k])
               /\ Dados(recebidos[k]) # <<>>
               /\ ~BatchEncerra(func, recebidos, k)
        /\ \A k \in 1..NumPedidos :
               EhErro(recebidos[k]) => (k = NumPedidos /\ pc = "done")
        /\ pc = "loop" => pagina = NumPedidos + 1

\* A fetch whose third request failed.
C23_Witness ==
    /\ func = "consultar_dados_por_fase"
    /\ pc = "done"
    /\ pedidos = <<1, 2, 3>>
    /\ EhErro(recebidos[3])
    /\ Len(Dados(recebidos[1])) = TamanhoPagina
    /\ Len(Dados(recebidos[2])) = TamanhoPagina

\* ------------------------------------- financial table: duplicates and split

\* The index labels of the rows of a table.
Indices(tabela) == {tabela[i].indice : i \in 1..Len(tabela)}

\* Whether the value of row l is negative, or its observation holds one of
\* the keywords, letter case aside.
NegativoOuComPalavra(l) ==
    \/ l.valor.tipo = "valor" /\ l.valor.valor.coef < 0
    \/ /\ "observacao" \in DOMAIN l
       /\ \E palavra \in PalavrasChave : Contem(Lower(l.observacao), palavra)

\* No two rows of the main table share the key (documento, valor).
ChavesUnicas ==
    "documento" \in Colunas(df) =>
        \A i, j \in 1..Len(df) :
            (df[i].documento = df[j].documento /\ df[i].valor = df[j].valor) => i = j

\* The two outputs are disjoint and together hold exactly the rows of the
\* main table.
SaidasParticionam ==
    /\ Indices(registros_normais) \cap Indices(ajustes_negativos) = {}
    /\ Indices(registros_normais) \cup Indices(ajustes_negativos) = Indices(df)
    /\ Len(registros_normais) + Len(ajustes_negativos) = Len(df)
    /\ \A i \in 1..Len(registros_normais) :
           \E j \in 1..Len(df) : df[j] = registros_normais[i]
    /\ \A i \in 1..Len(ajustes_negativos) :
           \E j \in 1..Len(df) : df[j] = ajustes_negativos[i]

\* C24 as claimed: after processar_dados_financeiros no two rows share
\* (documento, valor), the outputs partition the table, and a row is among
\* the negative adjustments exactly when its value is negative or its
\* observation holds a keyword.
C24_ParticaoPorValorOuObservacao ==
    pcFinanceiro = "done" =>
        /\ ChavesUnicas
        /\ SaidasParticionam
        /\ \A i \in 1..Len(df) :
               df[i].indice \in Indices(ajustes_negativos) <=> NegativoOuComPalavra(df[i])

\* C24 as the code has it: the same, the split by value or observation being
\* made only when the file has an `observacao` column; when it has none,
\* every row is exported as normal.
C24_ParticaoSeHaObservacao ==
    pcFinanceiro = "done" =>
        /\ ChavesUnicas
        /\ SaidasParticionam
        /\ \A i \in 1..Len(df) :
               df[i].indice \in Indices(ajustes_negativos) <=>
                   ("observacao" \in Colunas(df) /\ NegativoOuComPalavra(df[i]))

\* A file of three rows whose first and third share (documento, valor),
\* split into a negative adjustment and a normal row.
C24_Witness ==
    /\ pcFinanceiro = "done"
    /\ {"documento", "observacao"} \subseteq Colunas(df)
    /\ Len(dfLido) = 3
    /\ dfLido[1].documento = dfLido[3].documento
    /\ dfLido[1].valor = dfLido[3].valor
    /\ Indices(df) = {1, 2}
    /\ Len(registros_normais) = 1
    /\ Len(ajustes_negativos) = 1

====
